---- MODULE Spec2Model ----
(***************************************************************************)
(* Model of the speed limit service of MaxVel                              *)
(* (src/app/services/speedLimitService.ts).  The file holds two revisions  *)
(* of the class SpeedLimitService: lines 1-189 (revision 1) and lines      *)
(* 191-548 (revision 2).  The variable rev fixes the revision a behaviour  *)
(* runs; every operation is translated for both.  The ingestion script    *)
(* that writes the bundled dataset and the location callback of the        *)
(* screen SpeedLimitScreen (three revisions, variable screen) are modelled *)
(* next to it.                                                             *)
(*                                                                         *)
(* JavaScript values are records [t, n, s]: t is the type tag, n the       *)
(* number, s the string as a sequence of tokens (a token is one decimal    *)
(* digit or a chunk of text without digits).                               *)
(*                                                                         *)
(* Coordinates are integers of a local planar grid whose unit is the       *)
(* acceptance distance MAX_DISTANCE_KM (15 m); distances are exact squared *)
(* rationals [num, den], den = 0 standing for Infinity.                    *)
(***************************************************************************)
EXTENDS Integers, Sequences, FiniteSets, TLC

VARIABLES
  rev,            \* the revision of SpeedLimitService in use (1 or 2)
  bundled,        \* the contents of assets/data/speedLimits.json
  required,       \* the object require() returns for it (cached, shared)
  segments,       \* this.segments
  isInitialized,  \* this.isInitialized
  pc,             \* per caller: where its call of the service stands
  arg,            \* per caller: the location passed to the lookup
  held,           \* per caller: bundledData of its suspended initialize()
  microtasks,     \* the promise job queue (callers in FIFO order)
  running,        \* application code is on the stack (a task or a continuation)
  result,         \* per caller: what its last call settled with
  loadCount,      \* how many times the loop of loadBundledData has run
  assignCount,    \* how many times initialize() has assigned this.segments
  logged,         \* the count in the last "Loaded N segments" line of the console
  elements,       \* the OpenStreetMap ways the ingestion script is run on
  screen,         \* the revision of SpeedLimitScreen in use (1, 2 or 3)
  speed,          \* the screen's state speed (km/h, or null)
  sample,         \* <<coords.speed>> of the last location sample, <<>> before it
  mounted,        \* "no" before the screen mounts, "yes", "gone" after unmount
  debugMode,      \* the screen's state debugMode
  isLoading,      \* the screen's state isLoading
  limit,          \* the screen's state speedLimit
  currentSegment, \* the screen's state currentSegment (<<>> for null)
  segmentDistance, \* the screen's state distanceToSegment
  lastLocation,   \* the coordinates of the last call of updateSpeedLimit
  granted,        \* the user grants the foreground location permission
  asking,         \* runs of the location code awaiting the permission
  watching,       \* runs of the location code awaiting watchPositionAsync
  subs,           \* the location subscriptions that are active
  timers,         \* per timer id: the interval timer and its closure
  debugInterval,  \* debugInterval.current: a timer id, 0 for null
  pulse,          \* the pulse animation is running
  effects,        \* the effects of the last commit still to run, in order
  cleanup,        \* the effects whose last run returned a cleanup to React
  cont            \* per caller: the screen code that awaits its call

\* the state of the screen
screenVars == <<screen, speed, sample, mounted, debugMode, isLoading,
                limit, currentSegment, segmentDistance, lastLocation,
                granted, asking, watching, subs, timers, debugInterval, pulse,
                effects, cleanup, cont>>

vars == <<rev, bundled, required, segments, isInitialized, pc, arg, held,
          microtasks, running, result, loadCount, assignCount, logged,
          elements, screenVars>>

(***************************************************************************)
(* Bounds                                                                  *)
(***************************************************************************)
MaxRecords == 2
MaxCallers == 2
\* the location subscriptions and the interval timers followed
MaxSubs == 2
MaxTimers == 2

(***************************************************************************)
(* Program constants                                                       *)
(***************************************************************************)
DEFAULT_SPEED_LIMIT == 10
MAX_DISTANCE_KM == 1

(***************************************************************************)
(* JavaScript values                                                       *)
(***************************************************************************)
Undefined == [t |-> "undefined", n |-> 0, s |-> <<>>]
Null == [t |-> "null", n |-> 0, s |-> <<>>]
NaN == [t |-> "NaN", n |-> 0, s |-> <<>>]
Num(k) == [t |-> "number", n |-> k, s |-> <<>>]
Str(toks) == [t |-> "string", n |-> 0, s |-> toks]

\* typeof v === 'number' (NaN is of type number)
IsNumberType(v) == v.t \in {"number", "NaN"}

\* JavaScript truthiness, as used by ||, ! and if
Truthy(v) ==
  CASE v.t = "number" -> v.n # 0
    [] v.t = "string" -> v.s # <<>>
    [] OTHER -> FALSE

\* a || b
Or(a, b) == IF Truthy(a) THEN a ELSE b

Digits == <<"0", "1", "2", "3", "4", "5", "6", "7", "8", "9">>

IsDigit(c) == \E d \in 1..10 : Digits[d] = c

DigitVal(c) == (CHOOSE d \in 1..10 : Digits[d] = c) - 1

\* the template literal ${i} of a small non-negative index
IndexToks(i) == IF i < 10 THEN <<Digits[i + 1]>>
                ELSE <<Digits[(i \div 10) + 1], Digits[(i % 10) + 1]>>

(***************************************************************************)
(* Geometry values                                                         *)
(***************************************************************************)
Pt(px, py) == [x |-> px, y |-> py, bad |-> FALSE]
\* an element of a coordinate array that is not a pair of numbers
BadPt == [x |-> 0, y |-> 0, bad |-> TRUE]

NoGeometry == [t |-> "undefined", gtype |-> "", coordsIsArray |-> FALSE, pts |-> <<>>]
FlatGeometry(ps) == [t |-> "array", gtype |-> "", coordsIsArray |-> FALSE, pts |-> ps]
ObjGeometry(ty, ps) == [t |-> "object", gtype |-> ty, coordsIsArray |-> TRUE, pts |-> ps]
ObjGeometryNoCoords(ty) == [t |-> "object", gtype |-> ty, coordsIsArray |-> FALSE, pts |-> <<>>]

NoTags == [t |-> "undefined", maxspeedForward |-> Undefined, maxspeed |-> Undefined,
           name |-> Undefined, highway |-> Undefined]
Tags(msf, ms, nm, hw) == [t |-> "object", maxspeedForward |-> msf, maxspeed |-> ms,
                          name |-> nm, highway |-> hw]
\* the literal {} of  s.tags || {}
EmptyTags == Tags(Undefined, Undefined, Undefined, Undefined)

\* a raw record of the dataset; nul: the array element is null or undefined
Raw(i, nm, ty, sl, g, tg) ==
  [nul |-> FALSE, id |-> i, name |-> nm, type |-> ty, speedLimit |-> sl,
   geometry |-> g, tags |-> tg]
NullRecord ==
  [nul |-> TRUE, id |-> Undefined, name |-> Undefined, type |-> Undefined,
   speedLimit |-> Undefined, geometry |-> NoGeometry, tags |-> NoTags]

\* an element of this.segments (interface SpeedLimitSegment)
Segment(i, nm, ty, sl, g, tg) ==
  [id |-> i, name |-> nm, type |-> ty, speedLimit |-> sl, geometry |-> g, tags |-> tg]

(***************************************************************************)
(* Revision 2: parseSpeedLimit                                             *)
(***************************************************************************)
\* a call that ends in a thrown exception instead of a value
Thrown == [t |-> "thrown", n |-> 0, s |-> <<>>]

\* speedStr.match(/(\d+)/): the first maximal run of digits, <<>> if none
RECURSIVE TakeDigits(_)
TakeDigits(toks) ==
  IF toks = <<>> \/ ~IsDigit(Head(toks)) THEN <<>>
  ELSE <<Head(toks)>> \o TakeDigits(Tail(toks))

RECURSIVE FirstDigitRun(_)
FirstDigitRun(toks) ==
  IF toks = <<>> THEN <<>>
  ELSE IF IsDigit(Head(toks)) THEN TakeDigits(toks)
  ELSE FirstDigitRun(Tail(toks))

\* parseInt(digits, 10) of a non-empty run of digits
RECURSIVE ParseInt(_)
ParseInt(ds) ==
  IF ds = <<>> THEN 0
  ELSE 10 * ParseInt(SubSeq(ds, 1, Len(ds) - 1)) + DigitVal(ds[Len(ds)])

parseSpeedLimit(tags) ==
  LET speedStr == Or(tags.maxspeedForward, tags.maxspeed)
  IN IF ~Truthy(speedStr) THEN Num(10)
     ELSE IF speedStr.t # "string" THEN Thrown   \* a number has no .match
     ELSE IF FirstDigitRun(speedStr.s) = <<>> THEN Num(10)
     ELSE Num(ParseInt(FirstDigitRun(speedStr.s)))

(***************************************************************************)
(* loadBundledData                                                         *)
(***************************************************************************)
\* the value of require('../../assets/data/speedLimits.json'):
\*   "missing"  require throws        "null"    the JSON value null
\*   "object"   a non-array value without a default property
\*   "module"   an object whose default property is the array
\*   "array"    the array itself
Bundle(k, rs) == [kind |-> k, recs |-> rs]

\* const segments = Array.isArray(data) ? data : data.default || [];
\* (a throw inside the outer try makes loadBundledData return [])
RawSegments(data) ==
  IF data.kind \in {"array", "module"} THEN data.recs ELSE <<>>

\* revision 1, one pass of the loop body for index i (0-based)
AcceptV1(s, i) ==
  IF s.nul \/ s.geometry.t = "undefined" THEN <<>>
  ELSE
    LET hasValidSpeed == IsNumberType(s.speedLimit) /\ s.speedLimit.t # "NaN"
        coordsIsArray == s.geometry.t = "array" \/ s.geometry.coordsIsArray
        coords == s.geometry.pts
        hasValidCoords == coordsIsArray /\ Len(coords) >= 2
    IN IF hasValidSpeed /\ hasValidCoords
       THEN <<Segment(Or(s.id, Str(<<"segment-">> \o IndexToks(i))),
                      Or(Or(s.name, s.tags.name), Str(<<"Unnamed Road">>)),
                      Or(Or(s.type, s.tags.highway), Str(<<"unclassified">>)),
                      s.speedLimit,
                      coords,
                      IF s.tags.t = "object" THEN s.tags ELSE EmptyTags)>>
       ELSE <<>>

\* revision 2, one pass of the loop body for index i (0-based)
AcceptV2(segment, i) ==
  IF segment.nul THEN <<>>
  ELSE
    LET hasValidGeometry ==
          \/ segment.geometry.t = "array"
          \/ /\ segment.geometry.t = "object"
             /\ segment.geometry.gtype = "LineString"
             /\ segment.geometry.coordsIsArray
        speedLimit == parseSpeedLimit(segment.tags)
        normalizedSegment ==
          Segment(Or(segment.id, Str(<<"segment-">> \o IndexToks(i))),
                  Or(segment.name, Str(<<"Segment ">> \o IndexToks(i))),
                  Or(segment.type, Str(<<"unclassified">>)),
                  Or(speedLimit, Num(10)),
                  segment.geometry.pts,
                  IF segment.tags.t = "object" THEN segment.tags ELSE EmptyTags)
    IN IF speedLimit = Thrown THEN <<>>          \* caught by the inner try
       ELSE IF hasValidGeometry /\ Len(normalizedSegment.geometry) >= 2
            THEN <<normalizedSegment>>
            ELSE <<>>

Accept(r, s, i) == IF r = 1 THEN AcceptV1(s, i) ELSE AcceptV2(s, i)

\* a plausible slip: the generated id counts the accepted records, not the
\* records of the dataset
RECURSIVE LoadLoopStoreIndex(_, _, _, _)
LoadLoopStoreIndex(r, recs, i, validSegments) ==
  IF i >= Len(recs) THEN validSegments
  ELSE LoadLoopStoreIndex(r, recs, i + 1,
                          validSegments \o Accept(r, recs[i + 1], Len(validSegments)))

\* the for loop: validSegments after the records i+1 .. Len(recs)
RECURSIVE LoadLoop(_, _, _, _)
LoadLoop(r, recs, i, validSegments) ==
  IF i >= Len(recs) THEN validSegments
  ELSE LoadLoop(r, recs, i + 1, validSegments \o Accept(r, recs[i + 1], i))

loadBundledData(r, data) == LoadLoop(r, RawSegments(data), 0, <<>>)

\* revision 2 writes the parsed limit back into the raw record
\* (segment.speedLimit = speedLimit), in the object require() caches
MutateRaw(r, s) ==
  IF r = 2 /\ ~s.nul /\ parseSpeedLimit(s.tags) # Thrown
  THEN [s EXCEPT !.speedLimit = parseSpeedLimit(s.tags)]
  ELSE s

AfterLoad(r, data) ==
  [data EXCEPT !.recs = [i \in 1..Len(RawSegments(data)) |-> MutateRaw(r, data.recs[i])]]

(***************************************************************************)
(* createDefaultData                                                       *)
(* The built-in coordinates are given on the grid in units of 0.005 degree *)
(* relative to (34.19, -24.98), rounded to the nearest grid point.         *)
(***************************************************************************)
createDefaultDataV1 ==
  << Segment(Str(<<"n1-chidenguele-zandamela">>), Str(<<"N", "1", " - Chidenguele to Zandamela">>),
             Str(<<"trunk">>), Num(100),
             <<Pt(15, 29), Pt(17, 31)>>,
             Tags(Undefined, Undefined, Undefined, Str(<<"trunk">>))),
     Segment(Str(<<"chidenguele-urban">>), Str(<<"Chidenguele Urban Area">>),
             Str(<<"residential">>), Num(60),
             <<Pt(0, 0), Pt(2, 2)>>,
             Tags(Undefined, Undefined, Undefined, Str(<<"residential">>))),
     Segment(Str(<<"zandamela-urban">>), Str(<<"Zandamela Urban Area">>),
             Str(<<"residential">>), Num(60),
             <<Pt(32, 46), Pt(34, 48)>>,
             Tags(Undefined, Undefined, Undefined, Str(<<"residential">>))) >>

createDefaultDataV2 ==
  << Segment(Str(<<"n1-chidenguele-zandamela">>), Str(<<"N", "1", " - Chidenguele to Zandamela">>),
             Str(<<"trunk">>), Num(100),
             <<Pt(50, 52), Pt(52, 52), Pt(53, 52), Pt(54, 54), Pt(56, 56)>>,
             Tags(Str(<<"1", "0", "0">>), Undefined, Undefined, Str(<<"trunk">>))),
     Segment(Str(<<"chidenguele-urban">>), Str(<<"Chidenguele Urban Area">>),
             Str(<<"residential">>), Num(60),
             <<Pt(50, 50), Pt(51, 51), Pt(52, 52)>>,
             Tags(Undefined, Str(<<"6", "0">>), Undefined, Str(<<"residential">>))),
     Segment(Str(<<"zandamela-urban">>), Str(<<"Zandamela Urban Area">>),
             Str(<<"residential">>), Num(60),
             <<Pt(56, 54), Pt(55, 55), Pt(54, 56)>>,
             Tags(Undefined, Str(<<"6", "0">>), Undefined, Str(<<"residential">>))) >>

createDefaultData(r) == IF r = 1 THEN createDefaultDataV1 ELSE createDefaultDataV2

(***************************************************************************)
(* Distances: Turf.pointToLineDistance                                     *)
(***************************************************************************)
Infinity == [num |-> 1, den |-> 0]
Rat(nm, dn) == [num |-> nm, den |-> dn]

\* a < b, a <= b and a = b on squared distances (Infinity included)
Less(a, b) == a.num * b.den < b.num * a.den
Leq(a, b) == IF a.den = 0 THEN b.den = 0 ELSE a.num * b.den <= b.num * a.den
Same(a, b) == IF a.den = 0 \/ b.den = 0 THEN a.den = b.den
              ELSE a.num * b.den = b.num * a.den

Dot(ux, uy, vx, vy) == ux * vx + uy * vy

\* squared distance of p to the straight edge a-b (distanceToSegment)
distanceToSegment(p, a, b) ==
  LET vx == b.x - a.x
      vy == b.y - a.y
      wx == p.x - a.x
      wy == p.y - a.y
      c1 == Dot(wx, wy, vx, vy)
      c2 == Dot(vx, vy, vx, vy)
  IN IF c1 <= 0 THEN Rat(Dot(wx, wy, wx, wy), 1)
     ELSE IF c2 <= c1 THEN Rat(Dot(p.x - b.x, p.y - b.y, p.x - b.x, p.y - b.y), 1)
     ELSE Rat(Dot(wx, wy, wx, wy) * c2 - c1 * c1, c2)

\* segmentEach: the minimum over the edges i .. Len(pts)-1, starting from distance
RECURSIVE EdgeLoop(_, _, _, _)
EdgeLoop(p, pts, i, distance) ==
  IF i >= Len(pts) THEN distance
  ELSE LET d == distanceToSegment(p, pts[i], pts[i + 1])
       IN EdgeLoop(p, pts, i + 1, IF Less(d, distance) THEN d ELSE distance)

\* fails (throws, or yields NaN, which no comparison accepts) on a malformed
\* coordinate; revision 1 builds the line with Turf.lineString, which throws
\* on fewer than 2 positions
pointToLineDistance(r, p, pts) ==
  IF \E i \in 1..Len(pts) : pts[i].bad THEN Thrown
  ELSE IF r = 1 /\ Len(pts) < 2 THEN Thrown
  ELSE EdgeLoop(p, pts, 1, Infinity)

(***************************************************************************)
(* getSpeedLimitAtLocationWithInfo, from the check of location.coords on   *)
(***************************************************************************)
\* location arguments: no coords, or coords whose fields may be undefined
NoCoords == [hasCoords |-> FALSE, latitude |-> Undefined, longitude |-> Undefined]
Coords(lat, lon) == [hasCoords |-> TRUE, latitude |-> lat, longitude |-> lon]
At(px, py) == Coords(Num(py), Num(px))

\* what a call settles with; segment is <<>> for null, index is the position
\* of the returned object in this.segments (0 for null)
NoResult == [kind |-> "none", value |-> FALSE, speedLimit |-> Undefined,
             segment |-> <<>>, index |-> 0, distance |-> Infinity]
Returned(b) == [NoResult EXCEPT !.kind = "boolean", !.value = b]
Rejected == [NoResult EXCEPT !.kind = "rejected"]
Info(sl, seg, idx, d) == [kind |-> "info", value |-> FALSE, speedLimit |-> sl,
                          segment |-> seg, index |-> idx, distance |-> d]

\* the speed limit of the no-match results: null in revision 1
NoMatchSpeed(r) == IF r = 1 THEN Null ELSE Num(DEFAULT_SPEED_LIMIT)

MaxDistance == Rat(MAX_DISTANCE_KM * MAX_DISTANCE_KM, 1)

\* a plausible slip: the loop keeps every segment it measures, so the last wins
RECURSIVE ScanLoopNoCompare(_, _, _, _, _)
ScanLoopNoCompare(r, point, segs, i, closest) ==
  IF i > Len(segs) THEN closest
  ELSE LET distance == pointToLineDistance(r, point, segs[i].geometry)
       IN ScanLoopNoCompare(r, point, segs, i + 1,
                            IF distance # Thrown
                            THEN [distance |-> distance, index |-> i]
                            ELSE closest)

\* a plausible slip: <= in place of <, so the last of equal distances wins
RECURSIVE ScanLoopLeq(_, _, _, _, _)
ScanLoopLeq(r, point, segs, i, closest) ==
  IF i > Len(segs) THEN closest
  ELSE LET distance == pointToLineDistance(r, point, segs[i].geometry)
       IN ScanLoopLeq(r, point, segs, i + 1,
                      IF distance # Thrown /\ Leq(distance, closest.distance)
                      THEN [distance |-> distance, index |-> i]
                      ELSE closest)

\* a plausible slip: the first failing segment ends the scan
RECURSIVE ScanLoopAbort(_, _, _, _, _)
ScanLoopAbort(r, point, segs, i, closest) ==
  IF i > Len(segs) THEN closest
  ELSE LET distance == pointToLineDistance(r, point, segs[i].geometry)
       IN IF distance = Thrown THEN closest
          ELSE ScanLoopAbort(r, point, segs, i + 1,
                             IF Less(distance, closest.distance)
                             THEN [distance |-> distance, index |-> i]
                             ELSE closest)

\* the for loop over this.segments; closest = [distance, index]
RECURSIVE ScanLoop(_, _, _, _, _)
ScanLoop(r, point, segs, i, closest) ==
  IF i > Len(segs) THEN closest
  ELSE LET distance == pointToLineDistance(r, point, segs[i].geometry)
       IN ScanLoop(r, point, segs, i + 1,
                   IF distance # Thrown /\ Less(distance, closest.distance)
                   THEN [distance |-> distance, index |-> i]
                   ELSE closest)

\* a plausible slip: a segment at exactly the acceptance distance is refused
MatchesStrict(r, closest) ==
  closest.index # 0 /\ Less(closest.distance, MaxDistance)

\* revision 1: if (closestSegment && closestDistance <= this.MAX_DISTANCE_KM)
\* revision 2: the complement of  if (closestDistance > this.MAX_DISTANCE_KM)
Matches(r, closest) ==
  IF r = 1 THEN closest.index # 0 /\ Leq(closest.distance, MaxDistance)
  ELSE ~Less(MaxDistance, closest.distance)

Scan(r, location, segs) ==
  IF ~location.hasCoords THEN Info(NoMatchSpeed(r), <<>>, 0, Infinity)
  ELSE IF Len(segs) = 0 THEN Info(NoMatchSpeed(r), <<>>, 0, Infinity)
  ELSE IF ~(location.latitude.t = "number" /\ location.longitude.t = "number")
       THEN \* Turf.point throws "coordinates must contain numbers"
            IF r = 1 THEN Rejected ELSE Info(NoMatchSpeed(r), <<>>, 0, Infinity)
  ELSE LET point == Pt(location.longitude.n, location.latitude.n)
           closest == ScanLoop(r, point, segs, 1, [distance |-> Infinity, index |-> 0])
       IN IF Matches(r, closest)
          THEN Info(segs[closest.index].speedLimit, <<segs[closest.index]>>,
                    closest.index, closest.distance)
          ELSE Info(NoMatchSpeed(r), <<>>, 0, closest.distance)

(***************************************************************************)
(* The ingestion script that writes assets/data/speedLimits.json           *)
(***************************************************************************)
\* default speed limits for different road types (in km/h)
DEFAULT_SPEED_LIMITS ==
  [motorway |-> 120, trunk |-> 100, primary |-> 80, secondary |-> 80,
   tertiary |-> 60, unclassified |-> 50, residential |-> 40, service |-> 30,
   motorway_link |-> 80, trunk_link |-> 60, primary_link |-> 60,
   secondary_link |-> 50, tertiary_link |-> 50]

\* DEFAULT_SPEED_LIMITS[highway]
RoadTypeDefault(highway) ==
  IF highway.t = "string" /\ Len(highway.s) = 1
     /\ highway.s[1] \in DOMAIN DEFAULT_SPEED_LIMITS
  THEN Num(DEFAULT_SPEED_LIMITS[highway.s[1]])
  ELSE Undefined

\* the script's parseSpeedLimit(value): parseFloat first (the number a
\* string starts with; the strings here carry no sign, point or exponent),
\* then the first run of digits, then null
parseSpeedLimitValue(value) ==
  IF ~Truthy(value) THEN Null
  ELSE IF value.t = "number" THEN value
  ELSE IF TakeDigits(value.s) # <<>> THEN Num(ParseInt(TakeDigits(value.s)))
  ELSE IF FirstDigitRun(value.s) # <<>> THEN Num(ParseInt(FirstDigitRun(value.s)))
  ELSE Null

\* an element of type 'way'; nodes: per node id <<coordinate>>, or <<>> when
\* the node is missing from the response
Way(i, tg, ns) == [id |-> i, tags |-> tg, nodes |-> ns]

\* element.nodes.map(nodeId => nodes[nodeId]).filter(coord => coord)
RECURSIVE KnownNodes(_)
KnownNodes(ns) == IF ns = <<>> THEN <<>> ELSE Head(ns) \o KnownNodes(Tail(ns))

\* the body of the loop over the elements, for one way
ProcessWay(element) ==
  LET parsed == IF Truthy(element.tags.maxspeed)
                THEN parseSpeedLimitValue(element.tags.maxspeed)
                ELSE Null
      speedLimit == IF ~Truthy(parsed) /\ Truthy(element.tags.highway)
                    THEN Or(RoadTypeDefault(element.tags.highway), Num(60))
                    ELSE parsed
      geometry == KnownNodes(element.nodes)
  IN IF Len(element.nodes) > 1 /\ Truthy(speedLimit) /\ Len(geometry) > 1
     THEN <<Raw(Num(element.id),
                Or(element.tags.name, Str(<<"Unnamed Road">>)),
                element.tags.highway,
                speedLimit,
                FlatGeometry(geometry),
                element.tags)>>
     ELSE <<>>

\* the array the script writes
RECURSIVE processSpeedLimits(_)
processSpeedLimits(es) ==
  IF es = <<>> THEN <<>>
  ELSE ProcessWay(Head(es)) \o processSpeedLimits(Tail(es))

(***************************************************************************)
(* Inputs                                                                  *)
(***************************************************************************)
Callers == 1..MaxCallers

L1 == <<Pt(0, 0), Pt(2, 0)>>
L2 == <<Pt(0, 2), Pt(2, 2)>>
L3 == <<Pt(0, 0), Pt(1, 2), Pt(3, 2)>>

\* records of the kind the ingestion script writes: id, type, name,
\* speedLimit, tags and a flat geometry
RoadA == Raw(Str(<<"a">>), Str(<<"Road A">>), Str(<<"trunk">>), Num(100), FlatGeometry(L1),
             Tags(Undefined, Str(<<"1", "0", "0">>), Undefined, Str(<<"trunk">>)))
RoadB == Raw(Str(<<"b">>), Str(<<"Road B">>), Str(<<"residential">>), Num(60),
             ObjGeometry("LineString", L2),
             Tags(Undefined, Str(<<"6", "0">>), Undefined, Str(<<"residential">>)))
RoadC == Raw(Undefined, Undefined, Undefined, Num(50), FlatGeometry(L3), NoTags)
RoadBroken == Raw(Str(<<"x">>), Str(<<"Road X">>), Str(<<"trunk">>), Num(80),
                  FlatGeometry(<<Pt(1, 1), BadPt>>),
                  Tags(Undefined, Str(<<"8", "0">>), Undefined, Str(<<"trunk">>)))
RoadShort == [RoadA EXCEPT !.geometry = FlatGeometry(<<Pt(1, 1)>>)]

RECURSIVE SeqsUpTo(_, _)
SeqsUpTo(S, n) ==
  IF n = 0 THEN {<<>>}
  ELSE LET shorter == SeqsUpTo(S, n - 1)
       IN shorter \cup {Append(q, e) : q \in {t \in shorter : Len(t) = n - 1}, e \in S}

\* the bundled files without a usable array
Unusable == {Bundle("missing", <<>>), Bundle("null", <<>>), Bundle("object", <<>>)}

\* the bundled files over a pool of records
Bundles(kinds, pool) ==
  Unusable \cup {Bundle(k, rs) : k \in kinds, rs \in SeqsUpTo(pool, MaxRecords)}

SystemBundles == Bundles({"array"}, {RoadA, RoadShort})

\* one-field variations of RoadA, for the loader
IdChoices == {Undefined, Num(0), Str(<<"segment-", "1">>)}
SpeedChoices == {Undefined, NaN, Str(<<"6", "0">>), Num(0), Num(0 - 5)}
GeometryChoices ==
  {NoGeometry, FlatGeometry(<<>>), FlatGeometry(<<Pt(1, 1)>>),
   ObjGeometry("LineString", <<Pt(1, 1)>>), ObjGeometryNoCoords("LineString"),
   ObjGeometry("MultiPoint", L1)}
TagChoices ==
  {NoTags, EmptyTags,
   Tags(Undefined, Str(<<"6", "0", " km/h">>), Undefined, Undefined),
   Tags(Undefined, Str(<<"none">>), Undefined, Undefined),
   Tags(Str(<<"8", "0">>), Str(<<"6", "0">>), Undefined, Undefined),
   Tags(Undefined, Str(<<"0">>), Undefined, Undefined),
   Tags(Undefined, Num(60), Undefined, Undefined)}

LoadRecords ==
  {RoadA, RoadB, RoadC, NullRecord}
    \cup {[RoadA EXCEPT !.id = v] : v \in IdChoices}
    \cup {[RoadA EXCEPT !.speedLimit = v] : v \in SpeedChoices}
    \cup {[RoadA EXCEPT !.geometry = v] : v \in GeometryChoices}
    \cup {[RoadA EXCEPT !.tags = v] : v \in TagChoices}
    \cup {[RoadC EXCEPT !.tags = Tags(Undefined, Undefined, Str(<<"Tagged">>), Str(<<"primary">>))]}

LoadBundles == Bundles({"array", "module"}, LoadRecords)

LookupBundles == Bundles({"array"}, {RoadA, RoadB, RoadC, RoadBroken})

\* OpenStreetMap ways for the ingestion script, each with its own id
N2 == <<<<Pt(0, 0)>>, <<Pt(2, 0)>>>>
WayTags ==
  <<Tags(Undefined, Str(<<"6", "0">>), Str(<<"Main St">>), Str(<<"residential">>)),
    Tags(Str(<<"8", "0">>), Undefined, Undefined, Str(<<"trunk">>)),
    Tags(Undefined, Undefined, Str(<<"N", "1">>), Str(<<"trunk">>)),
    Tags(Undefined, Str(<<"none">>), Undefined, Str(<<"primary">>)),
    Tags(Undefined, Str(<<"5", "0", " km/h">>), Undefined, Str(<<"track">>)),
    Tags(Undefined, Undefined, Undefined, Str(<<"track">>)),
    Tags(Undefined, Undefined, Str(<<"Path">>), Undefined)>>
WayNodes ==
  <<<<<<Pt(0, 0)>>>>, <<<<Pt(0, 0)>>, <<>>>>, <<<<Pt(0, 2)>>, <<>>, <<Pt(2, 2)>>>>>>
Ways ==
  {Way(i, WayTags[i], N2) : i \in 1..Len(WayTags)}
    \cup {Way(Len(WayTags) + i, WayTags[1], WayNodes[i]) : i \in 1..Len(WayNodes)}

\* the responses of the map server: sequences of ways of distinct ids
Responses ==
  {es \in SeqsUpTo(Ways, MaxRecords) :
     es # <<>> /\ \A i, j \in 1..Len(es) : es[i].id = es[j].id => i = j}

SystemLocations == {NoCoords, At(1, 1)}

Locations ==
  {NoCoords, Coords(Undefined, Num(1)), Coords(Num(1), Undefined),
   At(0, 0), At(1, 0), At(1, 1), At(1, 3), At(1, 4), At(50, 52)}

(***************************************************************************)
(* State machine                                                           *)
(***************************************************************************)
\* the service as constructed, over one of the bundled files; osm: the
\* inputs of the ingestion script, run before the app is built
ServiceAt(files, osm) ==
  /\ rev \in {1, 2}
  /\ elements \in osm
  /\ bundled \in files
  /\ required = bundled
  /\ segments = <<>>
  /\ isInitialized = FALSE
  /\ pc = [c \in Callers |-> "idle"]
  /\ arg = [c \in Callers |-> NoCoords]
  /\ held = [c \in Callers |-> <<>>]
  /\ microtasks = <<>>
  /\ running = FALSE
  /\ result = [c \in Callers |-> NoResult]
  /\ loadCount = 0
  /\ assignCount = 0
  /\ logged = 0

\* no interval timer under an id
NoTimer == [on |-> FALSE, currentSpeed |-> 0, increasing |-> FALSE]

\* the interval timer of the debug effect:  let currentSpeed = 40;
\* let increasing = true;  (the screen with the matched segment keeps no
\* speed in its timer)
NewTimer(sc) ==
  IF sc = 1 THEN [on |-> TRUE, currentSpeed |-> 0, increasing |-> FALSE]
  ELSE [on |-> TRUE, currentSpeed |-> 40, increasing |-> TRUE]

\* no screen code awaits the caller's call
NoCont == [k |-> "none", debug |-> FALSE]

\* a plausible slip: every screen starts in debug mode, as screens 2 and 3 do
StartsInDebugAlways(sc) == TRUE

\* the initial debugMode:  useState(false) in screen 1, useState(true) in
\* screens 2 and 3
StartsInDebug(sc) == sc # 1

\* the screen before it mounts, with the initial values of its useState
\* calls: speed null; debugMode false in screen 1 and true in screens 2 and
\* 3; isLoading true (screen 2 has no such state); speedLimit null, and the
\* fixed 60 of screen 2
ScreenAt(revisions, grants) ==
  /\ screen \in revisions
  /\ speed = Null
  /\ sample = <<>>
  /\ mounted = "no"
  /\ debugMode = StartsInDebug(screen)
  /\ isLoading = (screen # 2)
  /\ limit = IF screen = 2 THEN Num(60) ELSE Null
  /\ currentSegment = <<>>
  /\ segmentDistance = Null
  /\ lastLocation = NoCoords
  /\ granted \in grants
  /\ asking = 0
  /\ watching = 0
  /\ subs = 0
  /\ timers = [id \in 1..MaxTimers |-> NoTimer]
  /\ debugInterval = 0
  /\ pulse = FALSE
  /\ effects = <<>>
  /\ cleanup = {}
  /\ cont = [c \in Callers |-> NoCont]

InitFrom(files, osm) == ServiceAt(files, osm) /\ ScreenAt({1}, {TRUE})

InitOver(files) == InitFrom(files, {<<>>})

Init == InitOver(SystemBundles)

\* a task of the event loop starts application code (an effect, a timer, a
\* location callback, a button press); tasks start only when no promise job
\* is pending
BeginTask ==
  /\ ~running
  /\ microtasks = <<>>
  /\ running' = TRUE
  /\ UNCHANGED <<rev, screenVars, elements, logged, bundled, required, segments,
                 isInitialized, pc, arg, held, microtasks, result, loadCount,
                 assignCount>>

\* the application code on the stack returns to the event loop
Yield ==
  /\ running
  /\ running' = FALSE
  /\ UNCHANGED <<rev, screenVars, elements, logged, bundled, required, segments,
                 isInitialized, pc, arg, held, microtasks, result, loadCount,
                 assignCount>>

\* a plausible slip: no fallback to the built-in set
NoFallback(r, bundledData) == bundledData

\* a plausible slip: the loaded segments are pushed onto this.segments
AppendedSegments(r, bundledData) ==
  segments \o (IF Len(bundledData) > 0 THEN bundledData ELSE createDefaultData(r))

\* what initialize() assigns to this.segments
\*   if (bundledData.length > 0) ... else this.segments = this.createDefaultData()
AssignedSegments(r, bundledData) ==
  IF Len(bundledData) > 0 THEN bundledData ELSE createDefaultData(r)

\* a plausible slip: the early return on this.isInitialized is missing
InitializeUnguarded(c, suspended) ==
  /\ pc' = [pc EXCEPT ![c] = suspended]
  /\ held' = [held EXCEPT ![c] = loadBundledData(rev, required)]
  /\ required' = AfterLoad(rev, required)
  /\ loadCount' = loadCount + 1
  /\ UNCHANGED result

\* a plausible slip: require() is called outside the try of loadBundledData,
\* so a missing file makes the call reject before anything is assigned
InitializeUncaught(c, suspended) ==
  IF isInitialized
  THEN /\ pc' = [pc EXCEPT ![c] = "returned"]
       /\ result' = [result EXCEPT ![c] = Returned(TRUE)]
       /\ UNCHANGED <<required, held, loadCount>>
  ELSE IF required.kind = "missing"
  THEN /\ pc' = [pc EXCEPT ![c] = "returned"]
       /\ result' = [result EXCEPT ![c] = Rejected]
       /\ UNCHANGED <<required, held, loadCount>>
  ELSE /\ pc' = [pc EXCEPT ![c] = suspended]
       /\ held' = [held EXCEPT ![c] = loadBundledData(rev, required)]
       /\ required' = AfterLoad(rev, required)
       /\ loadCount' = loadCount + 1
       /\ UNCHANGED result

\* initialize() up to its await (or to its early return)
InitializeBody(c, suspended) ==
  IF isInitialized
  THEN /\ pc' = [pc EXCEPT ![c] = "returned"]
       /\ result' = [result EXCEPT ![c] = Returned(TRUE)]
       /\ UNCHANGED <<required, held, loadCount>>
  ELSE /\ pc' = [pc EXCEPT ![c] = suspended]
       /\ held' = [held EXCEPT ![c] = loadBundledData(rev, required)]
       /\ required' = AfterLoad(rev, required)
       /\ loadCount' = loadCount + 1
       /\ UNCHANGED result

Initialize(c) ==
  /\ running
  /\ pc[c] = "idle"
  /\ InitializeBody(c, "initAwait")
  /\ microtasks' = Append(microtasks, c)
  /\ UNCHANGED <<rev, screenVars, elements, logged, bundled, segments,
                 isInitialized, arg, running, assignCount>>

\* a plausible slip: the lookup does not wait for initialize() and scans
\* whatever the store holds
StartLookupNoInit(c, location) ==
  /\ running
  /\ pc[c] = "idle"
  /\ arg' = [arg EXCEPT ![c] = location]
  /\ pc' = [pc EXCEPT ![c] = "returned"]
  /\ result' = [result EXCEPT ![c] = Scan(rev, location, segments)]
  /\ microtasks' = Append(microtasks, c)
  /\ UNCHANGED <<rev, elements, logged, bundled, required, segments, isInitialized,
                 held, running, loadCount, assignCount>>

\* getSpeedLimitAtLocationWithInfo(location) up to its first await, or to its
\* return when the service is initialized; run as caller c, with the promise
\* jobs of queue ahead of its continuation
CallLookup(c, location, queue) ==
  /\ arg' = [arg EXCEPT ![c] = location]
  /\ IF isInitialized
     THEN /\ pc' = [pc EXCEPT ![c] = "returned"]
          /\ result' = [result EXCEPT ![c] = Scan(rev, location, segments)]
          /\ UNCHANGED <<required, held, loadCount>>
     ELSE InitializeBody(c, "lookupInitAwait")
  /\ microtasks' = Append(queue, c)
  /\ UNCHANGED <<rev, elements, logged, bundled, segments, isInitialized,
                 running, assignCount>>

StartLookup(c, location) ==
  /\ running
  /\ pc[c] = "idle"
  /\ CallLookup(c, location, microtasks)

\* a lookup called by application code
Lookup(c, location) == StartLookup(c, location) /\ UNCHANGED screenVars

\* initialize() after  await this.loadBundledData()
ResumeInitialize(c) ==
  /\ ~running
  /\ microtasks # <<>> /\ Head(microtasks) = c
  /\ pc[c] \in {"initAwait", "lookupInitAwait"}
  /\ segments' = AssignedSegments(rev, held[c])
  /\ isInitialized' = TRUE
  /\ assignCount' = assignCount + 1
  /\ held' = [held EXCEPT ![c] = <<>>]
  /\ IF pc[c] = "initAwait"
     THEN /\ pc' = [pc EXCEPT ![c] = "returned"]
          /\ result' = [result EXCEPT ![c] = Returned(TRUE)]
     ELSE /\ pc' = [pc EXCEPT ![c] = "lookupAwait"]
          /\ UNCHANGED result
  /\ microtasks' = Append(Tail(microtasks), c)
  /\ UNCHANGED <<rev, screenVars, elements, logged, bundled, required, arg,
                 running, loadCount>>

\* getSpeedLimitAtLocationWithInfo after  await this.initialize()
ResumeLookup(c) ==
  /\ ~running
  /\ microtasks # <<>> /\ Head(microtasks) = c
  /\ pc[c] = "lookupAwait"
  /\ pc' = [pc EXCEPT ![c] = "returned"]
  /\ result' = [result EXCEPT ![c] = Scan(rev, arg[c], segments)]
  /\ microtasks' = Append(Tail(microtasks), c)
  /\ UNCHANGED <<rev, screenVars, elements, logged, bundled, required, segments,
                 isInitialized, arg, held, running, loadCount, assignCount>>

\* the caller's code after its await of the call: it has the settled result
\* and is application code on the stack again
Continue(c) ==
  /\ ~running
  /\ microtasks # <<>> /\ Head(microtasks) = c
  /\ pc[c] = "returned"
  /\ pc' = [pc EXCEPT ![c] = "idle"]
  /\ arg' = [arg EXCEPT ![c] = NoCoords]
  /\ result' = [result EXCEPT ![c] = NoResult]
  /\ running' = TRUE
  /\ microtasks' = Tail(microtasks)
  /\ UNCHANGED <<rev, screenVars, elements, logged, bundled, required, segments,
                 isInitialized, held, loadCount, assignCount>>

\* debugSegments(): logs the length of this.segments and each segment
DebugSegments ==
  /\ running
  /\ logged' = Len(segments)
  /\ UNCHANGED <<rev, screenVars, elements, bundled, required, segments,
                 isInitialized, pc, arg, held, microtasks, running, result,
                 loadCount, assignCount>>

NextOver(cs, locs) ==
  \/ BeginTask
  \/ Yield
  \/ DebugSegments
  \/ \E c \in cs : Initialize(c)
  \/ \E c \in cs, location \in locs : Lookup(c, location)
  \/ \E c \in cs : ResumeInitialize(c)
  \/ \E c \in cs : ResumeLookup(c)
  \/ \E c \in cs : Continue(c)

\* the service under concurrent callers
Next == NextOver(Callers, SystemLocations)

Spec == Init /\ [][Next]_vars

\* the loader alone: one caller initializes the service over the loader's inputs
InitLoad == InitOver(LoadBundles)

NextLoad ==
  \/ BeginTask
  \/ Yield
  \/ Initialize(1)
  \/ ResumeInitialize(1)
  \/ Continue(1)

SpecLoad == InitLoad /\ [][NextLoad]_vars

\* the matcher alone: one caller looks locations up over stores of roads
InitLookup == InitOver(LookupBundles)

NextLookup == NextOver({1}, Locations)

SpecLookup == InitLookup /\ [][NextLookup]_vars

\* the ingestion script runs, before the app is built, and writes the file
ProcessSpeedLimits ==
  /\ ~running /\ loadCount = 0
  /\ elements # <<>>
  /\ bundled.kind = "missing"
  /\ bundled' = Bundle("array", processSpeedLimits(elements))
  /\ required' = bundled'
  /\ UNCHANGED <<rev, screenVars, elements, logged, segments, isInitialized, pc,
                 arg, held, microtasks, running, result, loadCount,
                 assignCount>>

\* the pipeline: the script writes the dataset, the service loads it
InitIngest ==
  InitFrom({Bundle("missing", <<>>)}, Responses)

NextIngest ==
  \/ ProcessSpeedLimits
  \/ NextLoad

SpecIngest == InitIngest /\ [][NextIngest]_vars

(***************************************************************************)
(* SpeedLimitScreen: the location callback and the current speed shown     *)
(*   screen 1  the screen that shows the matched segment (formatSpeed)     *)
(*   screen 2  the screen with the fixed limit of 60                       *)
(*   screen 3  the screen with the map                                     *)
(* A sample's coords.speed is null or a number of tenths of a metre per    *)
(* second; speeds in km/h are whole numbers.                               *)
(***************************************************************************)
Screens == {1, 2, 3}

\* Math.round(x), x given in hundredths: the floor of x + 0.5
MathRound(hundredths) == (hundredths + 50) \div 100

\* newLocation.coords.speed !== null
\*   ? Math.round(newLocation.coords.speed * 3.6) : null
speedKmh(coordsSpeed) ==
  IF coordsSpeed # Null THEN Num(MathRound(36 * coordsSpeed.n)) ELSE Null

\* the current speed the screen renders for its state speed; null: '--' or
\* no speed text
DisplayedSpeed(sc, sp) ==
  IF sp = Null THEN Null
  ELSE IF sc = 1 THEN Num(MathRound(100 * sp.n))   \* formatSpeed
  ELSE sp                                          \* `${speed} km/h`

\* no step of the service
ServiceIdle ==
  UNCHANGED <<rev, elements, logged, bundled, required, segments, isInitialized,
              pc, arg, held, microtasks, running, result, loadCount,
              assignCount>>

\* a > b for two JavaScript numbers
Gt(a, b) == a.t = "number" /\ b.t = "number" /\ a.n > b.n

\* const isSpeeding = speed !== null && speedLimit !== null
\*                    && speed > speedLimit;
\* (screen 2, whose limit is the number 60: speed !== null && speed > speedLimit)
isSpeeding(sc, sp, sl) ==
  IF sc = 2 THEN sp # Null /\ Gt(sp, sl)
  ELSE sp # Null /\ sl # Null /\ Gt(sp, sl)

\* the condition under which the animation effect starts the pulse: screen 1
\* tests  speed && speedLimit && speed > speedLimit,  the others isSpeeding
PulseStarts(sc, sp, sl) ==
  IF sc = 1 THEN Truthy(sp) /\ Truthy(sl) /\ Gt(sp, sl)
  ELSE isSpeeding(sc, sp, sl)

\* the useEffect calls of each screen, in the order of the source
EffectsOf(sc) ==
  IF sc = 1 THEN <<"init", "debug", "anim">>
  ELSE IF sc = 2 THEN <<"debug", "location", "anim">>
  ELSE <<"init", "debug", "location", "anim">>

\* the dependency array of effect e holds a value that differs between the
\* state and the state with dm, il, sp and sl for debugMode, isLoading, speed
\* and speedLimit (updateSpeedLimit and pulseAnim never change)
DepsChanged(e, dm, il, sp, sl) ==
  IF e = "init" THEN dm # debugMode
  ELSE IF e = "debug" THEN dm # debugMode \/ (screen = 3 /\ sl # limit)
  ELSE IF e = "location"
  THEN dm # debugMode \/ (screen = 3 /\ (il # isLoading \/ sl # limit))
  ELSE IF screen = 1 THEN sp # speed \/ sl # limit
  ELSE isSpeeding(screen, sp, sl) # isSpeeding(screen, speed, limit)

Range(q) == {q[k] : k \in 1..Len(q)}

\* setDebugMode, setIsLoading, setSpeed and setSpeedLimit with the values dm,
\* il, sp and sl, and the render that follows: the effects whose dependencies
\* changed are to run after those of queue.  A screen that is not mounted
\* ignores the calls.
SetState(queue, dm, il, sp, sl) ==
  IF mounted = "yes"
  THEN /\ debugMode' = dm
       /\ isLoading' = il
       /\ speed' = sp
       /\ limit' = sl
       /\ effects' = queue \o SelectSeq(EffectsOf(screen),
                                        LAMBDA e : /\ DepsChanged(e, dm, il, sp, sl)
                                                   /\ e \notin Range(queue))
  ELSE /\ UNCHANGED <<debugMode, isLoading, speed, limit>>
       /\ effects' = queue

\* the event loop is idle and the last commit's effects have run: the next
\* task (a timer, a location sample, a touch) can start
Idle == ~running /\ microtasks = <<>> /\ effects = <<>>

\* the caller under which the screen makes its next call of the service
FreeCaller(c) ==
  /\ pc[c] = "idle"
  /\ \A d \in Callers : d < c => pc[d] # "idle"

\* clearInterval(ref)
Cleared(ts, ref) == IF ref = 0 THEN ts ELSE [ts EXCEPT ![ref] = NoTimer]

\* the id setInterval returns
FreeTimer(ts) == CHOOSE id \in 1..MaxTimers :
                   /\ ~ts[id].on
                   /\ \A d \in 1..MaxTimers : d < id => ts[d].on

\* the places the screens look up: one on Road A, one far from every road
Near == At(1, 1)
Far == At(50, 52)
ScreenLocations == {Near, Far}

\* the first render
Mount ==
  /\ Idle
  /\ mounted = "no"
  /\ mounted' = "yes"
  /\ effects' = EffectsOf(screen)
  /\ ServiceIdle
  /\ UNCHANGED <<screen, speed, sample, debugMode, isLoading, limit,
                 currentSegment, segmentDistance, lastLocation, granted,
                 asking, watching, subs, timers, debugInterval, pulse,
                 cleanup, cont>>

\* the effect that initializes the service: it starts init(), which runs to
\*   await speedLimitService.initialize()
\* with the debugMode of this render in its closure; no cleanup that does
\* anything is returned
InitEffect(c) ==
  /\ ~running
  /\ effects # <<>> /\ Head(effects) = "init"
  /\ FreeCaller(c)
  /\ InitializeBody(c, "initAwait")
  /\ microtasks' = Append(microtasks, c)
  /\ cont' = [cont EXCEPT ![c] = [k |-> "init", debug |-> debugMode]]
  /\ effects' = Tail(effects)
  /\ UNCHANGED <<rev, elements, logged, bundled, segments, isInitialized, arg,
                 running, assignCount>>
  /\ UNCHANGED <<screen, speed, sample, mounted, debugMode, isLoading,
                 limit, currentSegment, segmentDistance, lastLocation,
                 granted, asking, watching, subs, timers, debugInterval, pulse,
                 cleanup>>

\* a plausible slip: the cleanup of the debug effect does not clear the timer
DebugCleanupKeeps(ts, ref) == ts

\* the cleanup the debug effect returned:  clearInterval(debugInterval.current)
DebugCleanup(ts, ref) == Cleared(ts, ref)

\* the debug effect, after the cleanup of its previous run.  Screens 2 and 3:
\* with debug mode off it clears the timer of debugInterval.current and
\* returns; with debug mode on it calls setSpeed(40) and starts the timer.
\* Screen 1: with debug mode off it returns; with debug mode on it looks up
\* the initial debug location and starts the timer.
DebugEffect(c) ==
  /\ ~running
  /\ effects # <<>> /\ Head(effects) = "debug"
  /\ FreeCaller(c)
  /\ LET ran == "debug" \in cleanup
         ts == IF ran THEN DebugCleanup(timers, debugInterval) ELSE timers
         ref == IF ran /\ screen # 1 THEN 0 ELSE debugInterval
     IN IF ~debugMode
        THEN /\ timers' = IF screen = 1 THEN ts ELSE Cleared(ts, ref)
             /\ debugInterval' = IF screen = 1 THEN ref ELSE 0
             /\ cleanup' = cleanup \ {"debug"}
             /\ effects' = Tail(effects)
             /\ ServiceIdle
             /\ UNCHANGED <<speed, debugMode, isLoading, limit,
                            lastLocation, cont>>
        ELSE /\ \E id \in 1..MaxTimers : ~ts[id].on
             /\ timers' = [ts EXCEPT ![FreeTimer(ts)] = NewTimer(screen)]
             /\ debugInterval' = FreeTimer(ts)
             /\ cleanup' = cleanup \cup {"debug"}
             /\ IF screen = 1
                THEN /\ CallLookup(c, Far, microtasks)
                     /\ cont' = [cont EXCEPT ![c] = [k |-> "limit", debug |-> TRUE]]
                     /\ lastLocation' = Far
                     /\ effects' = Tail(effects)
                     /\ UNCHANGED <<speed, debugMode, isLoading, limit>>
                ELSE /\ SetState(Tail(effects), debugMode, isLoading, Num(40),
                                 limit)
                     /\ ServiceIdle
                     /\ UNCHANGED <<lastLocation, cont>>
  /\ UNCHANGED <<screen, sample, mounted, currentSegment, segmentDistance,
                 granted, asking, watching, subs, pulse>>

\* the location effect of screens 2 and 3: with debug mode on (screen 3: or
\* while loading) it returns; otherwise it starts an async function that runs
\* to  await Location.requestForegroundPermissionsAsync().  The function the
\* async function returns at its end never reaches React: the effect returns
\* no cleanup.  Runs beyond MaxSubs are not followed.
LocationEffect ==
  /\ ~running
  /\ effects # <<>> /\ Head(effects) = "location"
  /\ asking' = IF debugMode \/ (screen = 3 /\ isLoading) THEN asking
               ELSE IF asking + watching + subs < MaxSubs THEN asking + 1
               ELSE asking
  /\ effects' = Tail(effects)
  /\ ServiceIdle
  /\ UNCHANGED <<screen, speed, sample, mounted, debugMode, isLoading,
                 limit, currentSegment, segmentDistance, lastLocation,
                 granted, watching, subs, timers, debugInterval, pulse,
                 cleanup, cont>>

\* the animation effect.  Screens 2 and 3: the cleanup of the previous run
\* stops the pulse; when isSpeeding the pulse starts and its stop is returned
\* as cleanup, otherwise pulseAnim.setValue(1).  Screen 1 starts the loop or
\* calls pulseAnim.setValue(1), which stops it, and returns no cleanup.
AnimEffect ==
  /\ ~running
  /\ effects # <<>> /\ Head(effects) = "anim"
  /\ pulse' = PulseStarts(screen, speed, limit)
  /\ cleanup' = IF screen # 1 /\ isSpeeding(screen, speed, limit)
                THEN cleanup \cup {"anim"} ELSE cleanup \ {"anim"}
  /\ effects' = Tail(effects)
  /\ ServiceIdle
  /\ UNCHANGED <<screen, speed, sample, mounted, debugMode, isLoading,
                 limit, currentSegment, segmentDistance, lastLocation,
                 granted, asking, watching, subs, timers, debugInterval, cont>>

\* the Switch of the screen: setDebugMode(!debugMode)  (in screen 3 the
\* handler also runs test lookups that only log)
ToggleDebug ==
  /\ Idle
  /\ mounted = "yes"
  /\ SetState(<<>>, ~debugMode, isLoading, speed, limit)
  /\ ServiceIdle
  /\ UNCHANGED <<screen, sample, mounted, currentSegment, segmentDistance,
                 lastLocation, granted, asking, watching, subs, timers,
                 debugInterval, pulse, cleanup, cont>>

\* the screen unmounts: React runs the cleanups the effects returned
Unmount ==
  /\ Idle
  /\ mounted = "yes"
  /\ mounted' = "gone"
  /\ timers' = IF "debug" \in cleanup THEN DebugCleanup(timers, debugInterval)
               ELSE timers
  /\ debugInterval' = IF "debug" \in cleanup /\ screen # 1 THEN 0
                      ELSE debugInterval
  /\ pulse' = IF "anim" \in cleanup THEN FALSE ELSE pulse
  /\ cleanup' = {}
  /\ ServiceIdle
  /\ UNCHANGED <<screen, speed, sample, debugMode, isLoading, limit,
                 currentSegment, segmentDistance, lastLocation, granted,
                 asking, watching, subs, effects, cont>>

\* a plausible slip: the turn at the top is taken one tick late
\* (currentSpeed > 80 for currentSpeed >= 80)
TickedLate(t) ==
  IF t.increasing
  THEN [t EXCEPT !.currentSpeed = t.currentSpeed + 5,
                 !.increasing = ~(t.currentSpeed + 5 > 80)]
  ELSE [t EXCEPT !.currentSpeed = t.currentSpeed - 5,
                 !.increasing = (t.currentSpeed - 5 <= 40)]

\* the closure of the timer of screens 2 and 3 after one call of its callback:
\*   if (increasing) { currentSpeed += 5; if (currentSpeed >= 80) increasing = false; }
\*   else { currentSpeed -= 5; if (currentSpeed <= 40) increasing = true; }
Ticked(t) ==
  IF t.increasing
  THEN [t EXCEPT !.currentSpeed = t.currentSpeed + 5,
                 !.increasing = ~(t.currentSpeed + 5 >= 80)]
  ELSE [t EXCEPT !.currentSpeed = t.currentSpeed - 5,
                 !.increasing = (t.currentSpeed - 5 <= 40)]

\* the callback of the interval timer id.  Screens 2 and 3: the closure steps
\* and setSpeed(currentSpeed).  Screen 1: setTappedLocation and
\* updateSpeedLimit for a random place.
Tick(c, id) ==
  /\ Idle
  /\ timers[id].on
  /\ FreeCaller(c)
  /\ IF screen = 1
     THEN /\ \E location \in ScreenLocations :
               /\ CallLookup(c, location, microtasks)
               /\ lastLocation' = location
          /\ cont' = [cont EXCEPT ![c] = [k |-> "limit", debug |-> TRUE]]
          /\ UNCHANGED <<timers, speed, debugMode, isLoading, limit,
                         effects>>
     ELSE /\ timers' = [timers EXCEPT ![id] = Ticked(timers[id])]
          /\ SetState(<<>>, debugMode, isLoading,
                      Num(Ticked(timers[id]).currentSpeed), limit)
          /\ ServiceIdle
          /\ UNCHANGED <<lastLocation, cont>>
  /\ UNCHANGED <<screen, sample, mounted, currentSegment, segmentDistance,
                 granted, asking, watching, subs, debugInterval, pulse,
                 cleanup>>

\* Location.requestForegroundPermissionsAsync() settles.  Denied: setErrorMsg
\* and return.  Granted: screens 2 and 3 go on to
\*   await Location.watchPositionAsync(...)
\* and screen 1 first gets the current position, calls setTappedLocation and
\* updateSpeedLimit for it.
Permitted(c) ==
  /\ Idle
  /\ asking > 0
  /\ FreeCaller(c)
  /\ asking' = asking - 1
  /\ watching' = IF granted THEN watching + 1 ELSE watching
  /\ IF granted /\ screen = 1
     THEN /\ \E location \in ScreenLocations :
               /\ CallLookup(c, location, microtasks)
               /\ lastLocation' = location
          /\ cont' = [cont EXCEPT ![c] = [k |-> "limit", debug |-> FALSE]]
     ELSE /\ ServiceIdle
          /\ UNCHANGED <<lastLocation, cont>>
  /\ UNCHANGED <<screen, speed, sample, mounted, debugMode, isLoading,
                 limit, currentSegment, segmentDistance, granted, subs,
                 timers, debugInterval, pulse, effects, cleanup>>

\* Location.watchPositionAsync() settles: the subscription is active.  The
\* async function then returns a function that would remove it; nothing
\* receives that function.  (In screen 1 this return also skips
\* setIsLoading(false).)
Subscribed ==
  /\ Idle
  /\ watching > 0
  /\ watching' = watching - 1
  /\ subs' = subs + 1
  /\ ServiceIdle
  /\ UNCHANGED <<screen, speed, sample, mounted, debugMode, isLoading,
                 limit, currentSegment, segmentDistance, lastLocation,
                 granted, asking, timers, debugInterval, pulse, effects,
                 cleanup, cont>>

\* the callback of Location.watchPositionAsync for a sample at location with
\* coords.speed coordsSpeed, called while a subscription is active.  Screens
\* 2 and 3 call setSpeed; screens 1 and 3 call updateSpeedLimit, which starts
\* a lookup (as caller c).
LocationCallback(c, location, coordsSpeed) ==
  /\ Idle
  /\ subs > 0
  /\ FreeCaller(c)
  /\ sample' = <<coordsSpeed>>
  /\ IF screen = 1
     THEN UNCHANGED <<speed, debugMode, isLoading, limit, effects>>
     ELSE SetState(<<>>, debugMode, isLoading, speedKmh(coordsSpeed), limit)
  /\ IF screen = 2
     THEN /\ ServiceIdle
          /\ UNCHANGED <<lastLocation, cont>>
     ELSE /\ CallLookup(c, location, microtasks)
          /\ lastLocation' = location
          /\ cont' = [cont EXCEPT ![c] = [k |-> "limit", debug |-> FALSE]]
  /\ UNCHANGED <<screen, mounted, currentSegment, segmentDistance, granted,
                 asking, watching, subs, timers, debugInterval, pulse,
                 cleanup>>

\* handleRegionChange of screen 3, which acts in debug mode only:
\*   await updateSpeedLimit(region.latitude, region.longitude)
RegionChange(c, location) ==
  /\ Idle
  /\ mounted = "yes"
  /\ screen = 3
  /\ debugMode
  /\ FreeCaller(c)
  /\ CallLookup(c, location, microtasks)
  /\ lastLocation' = location
  /\ cont' = [cont EXCEPT ![c] = [k |-> "limit", debug |-> TRUE]]
  /\ UNCHANGED <<screen, speed, sample, mounted, debugMode, isLoading,
                 limit, currentSegment, segmentDistance, granted,
                 asking, watching, subs, timers, debugInterval, pulse,
                 effects, cleanup>>

\* the promise job at the head of the queue is the screen code k that awaits
\* the settled call of caller c
Resumed(c, k) ==
  /\ ~running
  /\ effects = <<>>
  /\ microtasks # <<>> /\ Head(microtasks) = c
  /\ pc[c] = "returned"
  /\ cont[c].k = k

\* the screen code ends without another call of the service
Release(c) ==
  /\ pc' = [pc EXCEPT ![c] = "idle"]
  /\ arg' = [arg EXCEPT ![c] = NoCoords]
  /\ result' = [result EXCEPT ![c] = NoResult]
  /\ cont' = [cont EXCEPT ![c] = NoCont]
  /\ microtasks' = Tail(microtasks)
  /\ UNCHANGED <<rev, elements, logged, bundled, required, segments,
                 isInitialized, held, running, loadCount, assignCount>>

\* init() after  await speedLimitService.initialize().
\* Screen 1, debug mode: setSpeed(50), setTappedLocation, updateSpeedLimit for
\* the test location, setIsLoading(false).  Screen 1, otherwise: on to
\* requestForegroundPermissionsAsync; the catch calls setIsLoading(false).
\* Screen 3: setSpeed(50) in debug mode, then the lookup of
\* getAndUpdateSpeedLimit; the catch sets the limit 60 and isLoading false.
ContinueInit(c) ==
  /\ Resumed(c, "init")
  /\ IF result[c].kind = "rejected"
     THEN /\ SetState(<<>>, debugMode, FALSE,
                      IF screen = 3 /\ cont[c].debug THEN Num(50) ELSE speed,
                      IF screen = 3 THEN Num(60) ELSE limit)
          /\ Release(c)
          /\ UNCHANGED <<lastLocation, asking>>
     ELSE IF screen = 1 /\ ~cont[c].debug
     THEN /\ asking' = IF asking + watching + subs < MaxSubs THEN asking + 1
                       ELSE asking
          /\ Release(c)
          /\ UNCHANGED <<speed, debugMode, isLoading, limit, effects,
                         lastLocation>>
     ELSE /\ SetState(<<>>, debugMode, IF screen = 1 THEN FALSE ELSE isLoading,
                      IF cont[c].debug THEN Num(50) ELSE speed, limit)
          /\ CallLookup(c, Near, Tail(microtasks))
          /\ lastLocation' = Near
          /\ cont' = [cont EXCEPT
                        ![c] = [k |-> IF screen = 1 THEN "limit" ELSE "initLimit",
                                debug |-> cont[c].debug]]
          /\ UNCHANGED asking
  /\ UNCHANGED <<screen, sample, mounted, currentSegment, segmentDistance,
                 granted, watching, subs, timers, debugInterval, pulse,
                 cleanup>>

\* updateSpeedLimit after its await of the lookup.  Screen 1:
\*   setSpeedLimit(speedLimit); setCurrentSegment(segment || null);
\*   setDistanceToSegment(distance);          catch: setErrorMsg
\* Screen 3:  setSpeedLimit(speedLimit); catch: setSpeedLimit(60)
ContinueLimit(c) ==
  /\ Resumed(c, "limit")
  /\ IF result[c].kind = "rejected"
     THEN /\ SetState(<<>>, debugMode, isLoading, speed,
                      IF screen = 3 THEN Num(60) ELSE limit)
          /\ UNCHANGED <<currentSegment, segmentDistance>>
     ELSE /\ SetState(<<>>, debugMode, isLoading, speed, result[c].speedLimit)
          /\ IF screen = 1 /\ mounted = "yes"
             THEN /\ currentSegment' = result[c].segment
                  /\ segmentDistance' = result[c].distance
             ELSE UNCHANGED <<currentSegment, segmentDistance>>
  /\ Release(c)
  /\ UNCHANGED <<screen, sample, mounted, lastLocation, granted, asking,
                 watching, subs, timers, debugInterval, pulse, cleanup>>

\* getAndUpdateSpeedLimit of screen 3 after its await of the lookup:
\*   setSpeedLimit(limit || 60);              catch: setSpeedLimit(60)
\* init() still awaits getAndUpdateSpeedLimit()
ContinueInitLimit(c) ==
  /\ Resumed(c, "initLimit")
  /\ SetState(<<>>, debugMode, isLoading, speed,
              IF result[c].kind = "rejected" THEN Num(60)
              ELSE Or(result[c].speedLimit, Num(60)))
  /\ arg' = [arg EXCEPT ![c] = NoCoords]
  /\ result' = [result EXCEPT ![c] = NoResult]
  /\ cont' = [cont EXCEPT ![c] = [k |-> "loaded", debug |-> cont[c].debug]]
  /\ microtasks' = Append(Tail(microtasks), c)
  /\ UNCHANGED <<rev, elements, logged, bundled, required, segments,
                 isInitialized, pc, held, running, loadCount, assignCount>>
  /\ UNCHANGED <<screen, sample, mounted, currentSegment, segmentDistance,
                 lastLocation, granted, asking, watching, subs, timers,
                 debugInterval, pulse, cleanup>>

\* init() of screen 3 after  await getAndUpdateSpeedLimit():
\*   setIsLoading(false)
ContinueLoaded(c) ==
  /\ Resumed(c, "loaded")
  /\ SetState(<<>>, debugMode, FALSE, speed, limit)
  /\ Release(c)
  /\ UNCHANGED <<screen, sample, mounted, currentSegment, segmentDistance,
                 lastLocation, granted, asking, watching, subs, timers,
                 debugInterval, pulse, cleanup>>

\* coords.speed of the samples, in tenths of a metre per second: null, 0,
\* 1.3 m/s (4.68 km/h, rounded up), 13.9 m/s (50.04 km/h, rounded down),
\* 14.1 m/s (50.76 km/h, rounded up) and the -1 m/s of a sample without a
\* valid speed
SampleSpeeds ==
  {Null, Num(0), Num(13), Num(139), Num(141), Num(0 - 10)}

\* Road A with the speed limit 0, which revision 1 of the loader stores
RoadZero == [RoadA EXCEPT !.speedLimit = Num(0)]

ScreenBundles ==
  {Bundle("missing", <<>>), Bundle("array", <<RoadA>>),
   Bundle("array", <<RoadZero>>)}

InitScreen == ServiceAt(ScreenBundles, {<<>>}) /\ ScreenAt(Screens, BOOLEAN)

NextScreen ==
  \/ Mount
  \/ ToggleDebug
  \/ Unmount
  \/ \E c \in Callers : InitEffect(c)
  \/ \E c \in Callers : DebugEffect(c)
  \/ LocationEffect
  \/ AnimEffect
  \/ \E c \in Callers, id \in 1..MaxTimers : Tick(c, id)
  \/ \E c \in Callers : Permitted(c)
  \/ Subscribed
  \/ \E c \in Callers, location \in ScreenLocations, v \in SampleSpeeds :
       LocationCallback(c, location, v)
  \/ \E c \in Callers, location \in ScreenLocations : RegionChange(c, location)
  \/ \E c \in Callers : effects = <<>> /\ ResumeInitialize(c)
  \/ \E c \in Callers : ContinueInit(c)
  \/ \E c \in Callers : ContinueLimit(c)
  \/ \E c \in Callers : ContinueInitLimit(c)
  \/ \E c \in Callers : ContinueLoaded(c)

\* the screen from before its mount on.  Every lookup of the screens starts
\* after the initialize() of the first init effect has assigned the store,
\* so no lookup of theirs suspends.
SpecScreen == InitScreen /\ [][NextScreen]_vars

(***************************************************************************)
(* Claims                                                                  *)
(***************************************************************************)

\* C1: a call of initialize() made once the service is initialized returns
\* true at once, runs no load and leaves the store as it was.
C1_InitializeIsIdempotent ==
  [][\A c \in Callers :
       (isInitialized /\ Initialize(c)) =>
         /\ segments' = segments
         /\ Len(segments') = Len(segments)
         /\ loadCount' = loadCount
         /\ assignCount' = assignCount
         /\ pc'[c] = "returned"
         /\ result'[c] = Returned(TRUE)]_vars

\* a second call has returned true without a load: application code is
\* still on the stack and only one load ever ran
C1_Witness ==
  /\ running /\ isInitialized
  /\ loadCount = 1 /\ assignCount = 1
  /\ \E c \in Callers : pc[c] = "returned" /\ result[c] = Returned(TRUE)

\* C2: the load and the assignment of the store run at most once, whatever
\* the interleaving of the callers.
C2_LoadsOnce == loadCount <= 1 /\ assignCount <= 1

\* C3: an initialized service has a store of at least one segment; when no
\* record of the bundled file is accepted the store is the built-in set.
C3_StoreNeverEmpty ==
  isInitialized =>
    /\ Len(segments) >= 1
    /\ (loadBundledData(rev, bundled) = <<>> => segments = createDefaultData(rev))

\* the service was initialized from an array whose records are all refused
C3_Witness ==
  /\ isInitialized
  /\ bundled.kind = "array" /\ Len(bundled.recs) >= 1
  /\ segments = createDefaultData(rev)

\* the coordinate points a record's geometry normalizes to: those of a flat
\* array or of a LineString object, none for any other shape
NormalizedPoints(rec) ==
  IF rec.geometry.t = "array" THEN rec.geometry.pts
  ELSE IF rec.geometry.t = "object" /\ rec.geometry.gtype = "LineString"
          /\ rec.geometry.coordsIsArray
       THEN rec.geometry.pts
       ELSE <<>>

\* a numeric speed limit is resolved for the record: revision 1 takes the
\* record's own limit, revision 2 resolves it from the tags
SpeedResolved(r, rec) ==
  IF r = 1 THEN rec.speedLimit.t = "number" ELSE parseSpeedLimit(rec.tags) # Thrown

ShouldAccept(r, rec) ==
  ~rec.nul /\ Len(NormalizedPoints(rec)) >= 2 /\ SpeedResolved(r, rec)

\* the indices (1-based) of the records to accept, in dataset order
ShouldAcceptIndices(r, recs) ==
  SelectSeq([i \in 1..Len(recs) |-> i], LAMBDA i : ShouldAccept(r, recs[i]))

\* C4: the loader returns one segment for each record whose geometry
\* normalizes to at least 2 points and whose speed limit resolves, in order,
\* and nothing for any other record.
C4_AcceptedIffValid ==
  pc[1] = "initAwait" =>
    LET recs == RawSegments(bundled)
        acc == ShouldAcceptIndices(rev, recs)
    IN /\ Len(held[1]) = Len(acc)
       /\ \A k \in 1..Len(acc) :
            k <= Len(held[1]) => held[1][k].geometry = NormalizedPoints(recs[acc[k]])

\* a record with an id (not 0, not empty), a name, a positive numeric
\* limit and at least 2 points
ValidRecord(rec) ==
  /\ ~rec.nul
  /\ rec.id.t \in {"number", "string"} /\ Truthy(rec.id)
  /\ rec.name.t = "string" /\ rec.name.s # <<>>
  /\ rec.speedLimit.t = "number" /\ rec.speedLimit.n > 0
  /\ Len(NormalizedPoints(rec)) >= 2

\* C5: a dataset of N valid records loads into a store of N segments, each
\* with the id, name, limit and geometry of its record.
C5_RoundTrip ==
  LET recs == RawSegments(bundled)
  IN (isInitialized /\ Len(recs) >= 1 /\ \A i \in 1..Len(recs) : ValidRecord(recs[i])) =>
       /\ Len(segments) = Len(recs)
       /\ \A i \in 1..Len(recs) :
            i <= Len(segments) =>
              /\ segments[i].id = recs[i].id
              /\ segments[i].name = recs[i].name
              /\ segments[i].speedLimit = recs[i].speedLimit
              /\ segments[i].geometry = NormalizedPoints(recs[i])

\* a lookup has settled for caller c
LookedUp(c) == pc[c] = "returned" /\ result[c].kind \in {"info", "rejected"}

\* the location carries a latitude and a longitude
ValidPoint(location) ==
  location.hasCoords /\ location.latitude.t = "number" /\ location.longitude.t = "number"

\* the distance of the location to the j-th segment of the store
DistanceTo(location, j) ==
  pointToLineDistance(rev, Pt(location.longitude.n, location.latitude.n),
                      segments[j].geometry)

\* the segments whose distance can be computed
Measurable(location) == {j \in 1..Len(segments) : DistanceTo(location, j) # Thrown}

\* C6: the distance a lookup reports is less than or equal to the distance
\* of every segment of the store, and a returned segment is at that distance.
C6_ClosestIsMinimum ==
  \A c \in Callers :
    (LookedUp(c) /\ ValidPoint(arg[c]) /\ result[c].kind = "info") =>
      /\ \A j \in Measurable(arg[c]) : Leq(result[c].distance, DistanceTo(arg[c], j))
      /\ result[c].index # 0 =>
           /\ result[c].index \in Measurable(arg[c])
           /\ Same(result[c].distance, DistanceTo(arg[c], result[c].index))

\* the returned segment is not the first of the store and is strictly closer
\* than an earlier one
C6_Witness ==
  \E c \in Callers :
    /\ LookedUp(c) /\ ValidPoint(arg[c])
    /\ result[c].index >= 2
    /\ 1 \in Measurable(arg[c])
    /\ Less(result[c].distance, DistanceTo(arg[c], 1))

\* C7: among segments at the same minimum distance the lookup returns the
\* earliest of the store: every earlier segment is strictly farther.
C7_FirstWinsTies ==
  \A c \in Callers :
    (LookedUp(c) /\ ValidPoint(arg[c]) /\ result[c].index # 0) =>
      \A j \in Measurable(arg[c]) :
        j < result[c].index =>
          Less(DistanceTo(arg[c], result[c].index), DistanceTo(arg[c], j))

\* the first segment is returned although a later one is at the same distance
C7_Witness ==
  \E c \in Callers :
    /\ LookedUp(c) /\ ValidPoint(arg[c])
    /\ result[c].index = 1
    /\ \E j \in Measurable(arg[c]) :
         j > 1 /\ Same(DistanceTo(arg[c], j), DistanceTo(arg[c], 1))

\* C8: when some segment is within the acceptance distance (equality
\* included) the lookup returns the closest segment itself, that segment's
\* limit and its distance.
C8_WithinThresholdMatches ==
  \A c \in Callers :
    (/\ LookedUp(c) /\ ValidPoint(arg[c])
     /\ \E j \in Measurable(arg[c]) : Leq(DistanceTo(arg[c], j), MaxDistance)) =>
      /\ result[c].kind = "info"
      /\ result[c].index \in Measurable(arg[c])
      /\ result[c].segment = <<segments[result[c].index]>>
      /\ result[c].speedLimit = segments[result[c].index].speedLimit
      /\ Same(result[c].distance, DistanceTo(arg[c], result[c].index))
      /\ \A j \in Measurable(arg[c]) : Leq(result[c].distance, DistanceTo(arg[c], j))
      /\ (Len(segments) = 1
          /\ segments[1].geometry[1] = Pt(arg[c].longitude.n, arg[c].latitude.n)) =>
           /\ result[c].index = 1
           /\ result[c].speedLimit = segments[1].speedLimit
           /\ result[c].distance.num = 0

\* a match at exactly the acceptance distance
C8_Witness ==
  \E c \in Callers :
    /\ LookedUp(c) /\ ValidPoint(arg[c])
    /\ result[c].index # 0
    /\ Same(result[c].distance, MaxDistance)

\* C9: when every segment is farther than the acceptance distance the lookup
\* returns no segment, the numeric default speed limit and the finite
\* minimum distance.
C9_BeyondThresholdDefault ==
  \A c \in Callers :
    (/\ LookedUp(c) /\ ValidPoint(arg[c])
     /\ Len(segments) >= 1
     /\ Measurable(arg[c]) = 1..Len(segments)
     /\ \A j \in 1..Len(segments) : Less(MaxDistance, DistanceTo(arg[c], j))) =>
      /\ result[c].kind = "info"
      /\ result[c].segment = <<>>
      /\ result[c].speedLimit = Num(DEFAULT_SPEED_LIMIT)
      /\ result[c].distance.den # 0
      /\ \A j \in 1..Len(segments) : Leq(result[c].distance, DistanceTo(arg[c], j))
      /\ \E j \in 1..Len(segments) : Same(result[c].distance, DistanceTo(arg[c], j))

\* C10: a lookup of a location without coords, or whose coords lack the
\* latitude or the longitude, returns no segment and an infinite distance
\* and does not throw.
C10_InvalidPointNoMatch ==
  \A c \in Callers :
    (LookedUp(c) /\ ~ValidPoint(arg[c])) =>
      /\ result[c].kind = "info"
      /\ result[c].segment = <<>>
      /\ result[c].distance = Infinity

\* the store without the segments whose distance to the location fails
WithoutFailing(location) ==
  SelectSeq(segments,
            LAMBDA s : pointToLineDistance(rev, Pt(location.longitude.n, location.latitude.n),
                                           s.geometry) # Thrown)

\* C11: a lookup over a store in which the distance computation fails for
\* some segments returns the speed limit, segment and distance that the same
\* lookup returns over the store without those segments.
C11_FailingSegmentsSkipped ==
  \A c \in Callers :
    (LookedUp(c) /\ ValidPoint(arg[c])) =>
      LET expected == Scan(rev, arg[c], WithoutFailing(arg[c]))
      IN /\ result[c].kind = "info"
         /\ result[c].speedLimit = expected.speedLimit
         /\ result[c].segment = expected.segment
         /\ result[c].distance = expected.distance

\* the returned segment comes after a segment whose distance fails
C11_Witness ==
  \E c \in Callers :
    /\ LookedUp(c) /\ ValidPoint(arg[c])
    /\ result[c].index >= 2
    /\ \E j \in 1..(result[c].index - 1) : j \notin Measurable(arg[c])

\* C12: every lookup that settles, in whatever state of the service and for
\* whatever location, settles by returning a result with a limit, a
\* segment and a distance; none settles by throwing.
C12_LookupAlwaysReturns ==
  \A c \in Callers :
    LookedUp(c) =>
      /\ result[c].kind = "info"
      /\ result[c].speedLimit # Undefined
      /\ Len(result[c].segment) <= 1

\* C13: once the store is constructed no step changes it: a lookup, a
\* debugSegments(), a repeated initialize() and the resumption of any call
\* leave this.segments equal to the store of the first initialization.
C13_StoreImmutable ==
  [][isInitialized => segments' = segments]_vars

\* after the first initialization a suspended second initialize() has
\* assigned the store again, debugSegments() has run and a lookup has returned
C13_Witness ==
  /\ isInitialized /\ assignCount >= 2
  /\ logged = Len(segments)
  /\ \E c \in Callers : LookedUp(c)

\* a call of initialize() has settled for caller c
InitializeSettled(c) == pc[c] = "returned" /\ result[c].kind \in {"boolean", "rejected"}

\* C14: with a bundled file that is missing (require throws) or is not an
\* array of records, every call of initialize() settles with true, the
\* service initialized and the store equal to the built-in segments.
C14_CorruptDatasetFallsBack ==
  bundled \in Unusable =>
    /\ isInitialized => segments = createDefaultData(rev)
    /\ \A c \in Callers :
         LookedUp(c) => isInitialized
    /\ \A c \in Callers :
         InitializeSettled(c) =>
           /\ result[c] = Returned(TRUE)
           /\ isInitialized
           /\ segments = createDefaultData(rev)

\* initialize() has returned true although require() threw
C14_Witness ==
  /\ bundled.kind = "missing"
  /\ \E c \in Callers : InitializeSettled(c) /\ result[c] = Returned(TRUE)
  /\ isInitialized /\ segments = createDefaultData(rev)

\* C15: every segment of the store has a limit that is a number, not
\* NaN, and positive.
C15_SpeedLimitPositive ==
  \A i \in 1..Len(segments) :
    /\ segments[i].speedLimit.t = "number"
    /\ segments[i].speedLimit.n > 0

\* C16: every segment of the store, loaded or built in, has a geometry of at
\* least 2 elements, each of them a coordinate pair.
C16_GeometryAtLeastTwoPairs ==
  \A i \in 1..Len(segments) :
    /\ Len(segments[i].geometry) >= 2
    /\ \A k \in 1..Len(segments[i].geometry) : ~segments[i].geometry[k].bad

\* the speed limits the stated order allows for a record with these tags:
\* the digits of maxspeed:forward (of maxspeed when that tag is absent), else
\* the road type's default, else the fixed default (10 or 60 by revision)
ResolvedInOrder(tags) ==
  LET tag == IF tags.maxspeedForward # Undefined THEN tags.maxspeedForward
             ELSE tags.maxspeed
      run == IF tag.t = "string" THEN FirstDigitRun(tag.s) ELSE <<>>
  IN IF run # <<>> THEN {Num(ParseInt(run))}
     ELSE IF RoadTypeDefault(tags.highway) # Undefined
          THEN {RoadTypeDefault(tags.highway)}
          ELSE {Num(10), Num(60)}

\* the store holds the segments loaded from the dataset
LoadedFromDataset == isInitialized /\ Len(loadBundledData(rev, bundled)) > 0

\* C17: the speed limit of every segment loaded from the dataset is the one
\* the order tag digits, road-type default, fixed default gives for its tags.
C17_SpeedLimitResolutionOrder ==
  LoadedFromDataset =>
    \A i \in 1..Len(segments) :
      segments[i].speedLimit \in ResolvedInOrder(segments[i].tags)

\* the ids the records of the dataset carry (not 0, not empty) are distinct
CarriedIdsDistinct ==
  LET recs == RawSegments(bundled)
  IN \A i, j \in 1..Len(recs) :
       (~recs[i].nul /\ ~recs[j].nul /\ Truthy(recs[i].id) /\ recs[i].id = recs[j].id)
         => i = j

\* C18: when the ids the records carry are distinct, the ids of the stored
\* segments are pairwise distinct, generated ids segment-<index> included.
C18_IdsPairwiseDistinct ==
  CarriedIdsDistinct =>
    \A i, j \in 1..Len(segments) : segments[i].id = segments[j].id => i = j

\* the indices (1-based) of the records the loader stores, in dataset order
StoredIndices(r, recs) ==
  SelectSeq([i \in 1..Len(recs) |-> i], LAMBDA i : Accept(r, recs[i], i - 1) # <<>>)

\* the name a record carries: its name field, else the name tag
CarriedName(rec) == Or(rec.name, rec.tags.name)

\* C19: a stored segment has the name its record carries, and the name
\* "Unnamed Road" when its record carries none.
C19_NameDefaultsToUnnamedRoad ==
  LoadedFromDataset =>
    LET recs == RawSegments(bundled)
        stored == StoredIndices(rev, recs)
    IN \A k \in 1..Len(stored) :
         k <= Len(segments) =>
           segments[k].name = IF Truthy(CarriedName(recs[stored[k]]))
                              THEN CarriedName(recs[stored[k]])
                              ELSE Str(<<"Unnamed Road">>)

\* C20: when the mounted screen has handled a location sample, the current
\* speed shown is null when the sample's speed is null, and otherwise the
\* whole number of km/h nearest to 3.6 times the sample's speed in m/s (0.36
\* times its tenths).
C20_DisplayedSpeedIsRoundedKmh ==
  [][\A c \in Callers, location \in ScreenLocations, v \in SampleSpeeds :
       (mounted = "yes" /\ LocationCallback(c, location, v)) =>
         LET shown == DisplayedSpeed(screen, speed')
         IN IF v = Null THEN shown = Null
            ELSE /\ shown.t = "number"
                 /\ 100 * shown.n - 36 * v.n <= 50
                 /\ 36 * v.n - 100 * shown.n <= 50]_vars

isReady == isInitialized

\* C21: every step in which a lookup settles is taken by an initialized
\* service with a populated store and settles with the scan of that store;
\* a lookup that found the service uninitialized resumes only once it is
\* initialized; after a lookup has returned isReady is true.
C21_LookupInitializesFirst ==
  [][\A c \in Callers :
       /\ (~LookedUp(c) /\ LookedUp(c)') =>
            /\ isReady /\ Len(segments) >= 1
            /\ result'[c] = Scan(rev, arg'[c], segments)
       /\ pc'[c] = "lookupAwait" => isReady'
       /\ LookedUp(c)' => isReady']_vars

\* a lookup that found the service uninitialized has run the initialization
\* and is about to scan
C21_Witness ==
  \E c \in Callers :
    pc[c] = "lookupAwait" /\ isReady /\ assignCount = 1 /\ Len(segments) >= 1

\* C29: the store holds the accepted records in dataset order, one segment
\* each and nothing for a skipped record; a segment without a carried id has
\* the id segment-<i>, i the (0-based) index of its record in the dataset.
C29_DatasetOrderKept ==
  LoadedFromDataset =>
    LET recs == RawSegments(bundled)
        stored == StoredIndices(rev, recs)
    IN /\ Len(segments) = Len(stored)
       /\ \A k \in 1..Len(stored) :
            k <= Len(segments) =>
              /\ segments[k].geometry = recs[stored[k]].geometry.pts
              /\ segments[k].id =
                   IF Truthy(recs[stored[k]].id) THEN recs[stored[k]].id
                   ELSE Str(<<"segment-">> \o IndexToks(stored[k] - 1))

\* a record was skipped before an accepted record without id, whose id is
\* segment-1 although it is the first segment of the store
C29_Witness ==
  /\ LoadedFromDataset
  /\ Len(segments) < Len(RawSegments(bundled))
  /\ segments[1].id = Str(<<"segment-", "1">>)
  /\ ~Truthy(RawSegments(bundled)[2].id)

\* C22: once the screen has unmounted, or while debug mode is on, and the
\* effects of that change have run, no location subscription is active (so
\* no location callback can update the screen's speed or speed limit).
C22_SubscriptionRemoved ==
  (effects = <<>> /\ (mounted = "gone" \/ debugMode)) => subs = 0

\* the steps the runtime takes by itself: React mounts the screen and runs the
\* effects of a commit, the promise jobs run in order, and the promises of
\* expo-location settle.  Touches, location samples and the unmount are up to
\* the user and the device.
EffectStep ==
  \/ \E c \in Callers : InitEffect(c)
  \/ \E c \in Callers : DebugEffect(c)
  \/ LocationEffect
  \/ AnimEffect

JobStep ==
  \/ \E c \in Callers : effects = <<>> /\ ResumeInitialize(c)
  \/ \E c \in Callers : ContinueInit(c)
  \/ \E c \in Callers : ContinueLimit(c)
  \/ \E c \in Callers : ContinueInitLimit(c)
  \/ \E c \in Callers : ContinueLoaded(c)

SettleStep == (\E c \in Callers : Permitted(c)) \/ Subscribed

SpecScreenLive ==
  /\ InitScreen
  /\ [][NextScreen]_vars
  /\ WF_vars(Mount)
  /\ WF_vars(EffectStep)
  /\ WF_vars(JobStep)
  /\ WF_vars(SettleStep)

\* C23: once the service has initialized under a mounted screen, the screen's
\* isLoading eventually becomes false, unless the screen unmounts first.
C23_LoadingEnds ==
  (isInitialized /\ mounted = "yes") ~> (~isLoading \/ mounted = "gone")

\* the interval timers of the speed simulation (screens 2 and 3)
Simulating(id) == screen # 1 /\ timers[id].on

C25_AtMostOneSubscription == subs <= 1

\* the interval timers that are active
ActiveTimers == {id \in 1..MaxTimers : timers[id].on}

\* C26: at most one debug interval timer is active at every moment; once the
\* debug effect has run with debug mode off, and once the screen has
\* unmounted, none is active.
C26_AtMostOneTimer ==
  /\ Cardinality(ActiveTimers) <= 1
  /\ (~debugMode /\ "debug" \notin Range(effects)) => ActiveTimers = {}
  /\ mounted = "gone" => ActiveTimers = {}

\* debug mode has been switched off after the simulation had run: its timer
\* is cleared
C26_Witness ==
  /\ mounted = "yes" /\ ~debugMode /\ effects = <<>>
  /\ ActiveTimers = {}
  /\ "debug" \notin cleanup
  /\ screen # 1 /\ subs = 0 /\ speed = Num(45)

\* the callers whose lookup for updateSpeedLimit (or for the initial limit of
\* screen 3) has not been handled by the screen yet, in the order of the
\* promise jobs
PendingLookups ==
  SelectSeq(microtasks, LAMBDA c : cont[c].k \in {"limit", "initLimit"})

\* what the screen shows for the result r of a lookup: screen 1 the limit,
\* the segment and the distance, screen 3 the limit (60 for a falsy limit of
\* the initial lookup)
Shows(r) ==
  IF screen = 1
  THEN limit = r.speedLimit /\ currentSegment = r.segment
       /\ segmentDistance = r.distance
  ELSE limit = r.speedLimit \/ limit = Or(r.speedLimit, Num(60))

C28_PulseIffSpeeding ==
  (mounted = "yes" /\ effects = <<>>) =>
    /\ isSpeeding(screen, speed, limit) =
         (speed # Null /\ limit # Null /\ Gt(speed, limit))
    /\ pulse = isSpeeding(screen, speed, limit)

====
